---- MODULE Spec2Model ----
(***************************************************************************)
(* Device state and energy accounting of the "smart home" class hierarchy  *)
(* SmartDevice -> PoweredDevice -> LightBulb / Thermostat / SmartOutlet.   *)
(*                                                                         *)
(* The repository holds three revisions of the same classes:               *)
(*   "hpp"  : src/smart_devices.hpp (header-only, display/monitoring       *)
(*            thermostat, guarded overrides, timing zeroed on copy);       *)
(*   "main" : src/main.cpp (out-of-line member definitions, heating/       *)
(*            cooling thermostat, exceptions); the SmartDevice base class  *)
(*            it compiles against is the one of the header it includes,    *)
(*            src/smart_devices.hpp lines 77-196;                          *)
(*   "ll"   : src/ll.cpp (single file, heating/cooling thermostat, no      *)
(*            exceptions, compiler-generated PoweredDevice/SmartDevice     *)
(*            copy operations, energy counter kept in kWh).                *)
(* A behaviour fixes one revision (rev) and one scope, and then runs any   *)
(* sequence of the scope's public calls on the devices held in the scope's *)
(* slots. The scopes bound the model: one device with every call and every *)
(* input, or two devices with either the switching calls or the attribute  *)
(* setters.                                                                *)
(*                                                                         *)
(* time(nullptr) is the variable clock; it never goes backwards.           *)
(* Doubles are modelled by exact integers: the energy counter holds        *)
(* watt-seconds, i.e. the C++ value times EnergyDivisor(rev).              *)
(***************************************************************************)
EXTENDS Integers, Sequences, FiniteSets, TLC

VARIABLES
    rev,                    \* which revision of the classes is running
    scope,                  \* the bounds of this behaviour (see Scopes)
    clock,                  \* time(nullptr)
    devs,                   \* slot -> device object (kind "none": no object)
    totalDevicesCreated,    \* SmartDevice::totalDevicesCreated
    totalEnergyConsumedAll, \* PoweredDevice::totalEnergyConsumedAll, times EnergyDivisor(rev)
    last                    \* the last public call made (history, not program state)

vars == <<rev, scope, clock, devs, totalDevicesCreated, totalEnergyConsumedAll, last>>

----------------------------------------------------------------------------
(* Bounds of the model *)

StartTime == 1
MaxTicks == 2
MaxPairTicks == 1
MaxCreated == 3
MaxEnergy == 4
MaxIdLen == 2

Slots == {"a", "b"}

\* slots: the objects a behaviour may hold; ticks: how far the clock advances;
\* switching: turnOn, turnOff, setMode, toggleOutlet are called;
\* setters: setBrightness, setColor, updateTemperature, setTargetTemperature
\* are called; statics: getPowerUsage and resetEnergyConsumption are called;
\* args: the constructors and setMode get every input (else valid ones).
Scopes ==
    { [name |-> "one",   slots |-> {"a"},      ticks |-> MaxTicks,
       switching |-> TRUE,  setters |-> TRUE,  statics |-> TRUE,  args |-> TRUE],
      [name |-> "pair",  slots |-> {"a", "b"}, ticks |-> MaxPairTicks,
       switching |-> TRUE,  setters |-> FALSE, statics |-> FALSE, args |-> FALSE],
      [name |-> "attrs", slots |-> {"a", "b"}, ticks |-> 0,
       switching |-> FALSE, setters |-> TRUE,  statics |-> TRUE,  args |-> FALSE] }
Revisions == {"hpp", "main", "ll"}
Kinds == {"LightBulb", "Thermostat", "SmartOutlet"}
PowerInputs == {-2, 0, 2}
BrightnessInputs == {-1, 0, 100, 101}
ColorInputs == {"white", "blue"}
TempInputs == {20, 25}
ModeInputs == {"off", "heating", "cooling", "display", "monitoring"}

(* Program constants *)
MinBrightness == 0
MaxBrightness == 100

----------------------------------------------------------------------------
(* Helpers *)

Abs(x) == IF x < 0 THEN -x ELSE x

HeatingCooling(r) == r \in {"main", "ll"}

\* The divisor that turns watt-seconds into the unit of the energy counter.
EnergyDivisor(r) == IF r = "ll" THEN 3600000 ELSE 3600

RestingMode(r) == IF r = "hpp" THEN "display" ELSE "off"

ActiveMode(r) == IF r = "hpp" THEN "monitoring" ELSE "heating"

RecognizedModes(r) == IF r = "hpp" THEN {"display", "monitoring"}
                      ELSE {"off", "heating", "cooling"}

BaseId(kind) == CASE kind = "LightBulb"   -> "LB1"
                  [] kind = "Thermostat"  -> "TH1"
                  [] kind = "SmartOutlet" -> "SO1"

NoDevice ==
    [kind |-> "none", deviceId |-> <<>>, isOn |-> FALSE,
     powerConsumption |-> 0, lastTurnOnTime |-> 0, totalOnTime |-> 0,
     brightness |-> 0, color |-> "",
     currentTemperature |-> 0, targetTemperature |-> 0, mode |-> "",
     outletOn |-> FALSE]

Exists(d) == devs[d].kind # "none"

\* The record of a public call: which member function, on which slot, and
\* whether it threw. For the calls that may read time(nullptr) (turnOn,
\* turnOff, and setMode / setTargetTemperature, which may call turnOn) also
\* the clock value at the call (t) and whether the device was on when it was
\* made (wasOn). For a query, the value it returned (ret).
NoCall ==
    [op |-> "none", dev |-> "-", t |-> 0, wasOn |-> FALSE, threw |-> FALSE,
     ret |-> 0]

Call(op, d, threw) ==
    [op |-> op, dev |-> d, t |-> 0, wasOn |-> FALSE, threw |-> threw,
     ret |-> 0]

SwitchingCall(op, d, threw) ==
    [op |-> op, dev |-> d, t |-> clock, wasOn |-> devs[d].isOn, threw |-> threw,
     ret |-> 0]

Query(op, d, ret) ==
    [op |-> op, dev |-> d, t |-> 0, wasOn |-> FALSE, threw |-> FALSE,
     ret |-> ret]

----------------------------------------------------------------------------
(* Faulty variants of member functions. None is used by the model; each one *)
(* stands in for the function it is named after to show that the property   *)
(* stated about that function tells the two apart.                          *)

\* turnOff that charges the session to the energy counter but not to the
\* device's own totalOnTime.
PoweredDevice_turnOff_NoOnTime(dev, now) ==
    IF dev.isOn
    THEN [dev    |-> [dev EXCEPT !.isOn = FALSE],
          energy |-> dev.powerConsumption * (now - dev.lastTurnOnTime)]
    ELSE [dev |-> dev, energy |-> 0]

\* turnOn that starts the accumulated on-time afresh.
PoweredDevice_turnOn_ResetsTotal(dev, now) ==
    IF ~dev.isOn
    THEN [dev EXCEPT !.isOn = TRUE, !.lastTurnOnTime = now, !.totalOnTime = 0]
    ELSE dev

\* Thermostat::turnOn that leaves the mode alone.
Thermostat_turnOn_KeepsMode(r, dev, now) ==
    IF ~dev.isOn
    THEN [dev EXCEPT !.isOn = TRUE, !.lastTurnOnTime = now]
    ELSE dev

\* setTargetTemperature that turns an off thermostat on whatever the target.
Thermostat_setTargetTemperature_AlwaysOn(r, dev, temp, now) ==
    LET s == [dev EXCEPT !.targetTemperature = temp]
    IN  IF ~s.isOn
        THEN [s EXCEPT !.isOn = TRUE, !.lastTurnOnTime = now, !.mode = "heating"]
        ELSE s

\* resetEnergyConsumption that also clears every device's own totalOnTime.
ResetEnergyConsumption_ClearsDevices ==
    /\ scope.statics
    /\ totalEnergyConsumedAll' = 0
    /\ devs' = [d \in Slots |-> [devs[d] EXCEPT !.totalOnTime = 0]]
    /\ last' = Call("resetEnergyConsumption", "-", FALSE)
    /\ UNCHANGED <<rev, scope, clock, totalDevicesCreated>>

\* Thermostat::getPowerUsage that ignores the temperature difference.
Thermostat_getPowerUsage20_Flat(dev) ==
    IF ~dev.isOn \/ dev.mode = "off" THEN 0 ELSE dev.powerConsumption * 10

\* Variant constructor that leaves the new object switched on.
NewDevice_StartsOn(r, kind, power, brightness, color, initialTemp) ==
    LET base == [NoDevice EXCEPT !.kind = kind, !.deviceId = <<BaseId(kind)>>,
                                 !.isOn = TRUE, !.powerConsumption = power,
                                 !.lastTurnOnTime = 0, !.totalOnTime = 0]
    IN  CASE kind = "LightBulb" ->
               [base EXCEPT !.brightness = brightness, !.color = color]
          [] kind = "Thermostat" ->
               [base EXCEPT !.currentTemperature = initialTemp,
                            !.targetTemperature =
                                IF HeatingCooling(r) THEN initialTemp ELSE 0,
                            !.mode = RestingMode(r)]
          [] kind = "SmartOutlet" ->
               [base EXCEPT !.outletOn = FALSE]

\* setBrightness that stores whatever level it is given.
LightBulb_setBrightness_Unchecked(r, dev, level) ==
    [dev EXCEPT !.brightness = level]

\* Thermostat::turnOff that switches the device off and leaves the mode alone.
Thermostat_turnOff_KeepsMode(r, dev, now) ==
    IF dev.isOn
    THEN [dev    |-> [dev EXCEPT !.isOn = FALSE,
                                 !.totalOnTime = @ + (now - dev.lastTurnOnTime)],
          energy |-> dev.powerConsumption * (now - dev.lastTurnOnTime)]
    ELSE [dev |-> dev, energy |-> 0]

----------------------------------------------------------------------------
(* PoweredDevice *)

\* PoweredDevice::turnOn: identical in the three revisions.
PoweredDevice_turnOn(dev, now) ==
    IF ~dev.isOn
    THEN [dev EXCEPT !.isOn = TRUE, !.lastTurnOnTime = now]
    ELSE dev

\* sessionTime / onDuration of PoweredDevice::turnOff.
SessionTime(dev, now) == now - dev.lastTurnOnTime

\* PoweredDevice::turnOff: the device afterwards and the energy (watt-seconds)
\* it adds to the process-wide counter.
PoweredDevice_turnOff(dev, now) ==
    IF dev.isOn
    THEN [dev    |-> [dev EXCEPT !.isOn = FALSE,
                                 !.totalOnTime = @ + SessionTime(dev, now)],
          energy |-> dev.powerConsumption * SessionTime(dev, now)]
    ELSE [dev |-> dev, energy |-> 0]

\* PoweredDevice::getCurrentSessionTime
GetCurrentSessionTime(dev, now) ==
    IF dev.isOn THEN now - dev.lastTurnOnTime ELSE 0

\* PoweredDevice::getDeviceEnergyConsumed, in watt-seconds.
GetDeviceEnergyConsumed(dev, now) ==
    dev.powerConsumption * (dev.totalOnTime + GetCurrentSessionTime(dev, now))

\* PoweredDevice::getPowerUsage (the base implementation).
PoweredDevice_getPowerUsage(dev) ==
    IF dev.isOn THEN dev.powerConsumption ELSE 0

----------------------------------------------------------------------------
(* Thermostat *)

Thermostat_turnOn(r, dev, now) ==
    IF r = "hpp"
    THEN IF ~dev.isOn
         THEN [dev EXCEPT !.isOn = TRUE, !.lastTurnOnTime = now,
                          !.mode = "monitoring"]
         ELSE dev
    ELSE LET p == PoweredDevice_turnOn(dev, now)
         IN  IF p.mode = "off" THEN [p EXCEPT !.mode = "heating"] ELSE p

Thermostat_turnOff(r, dev, now) ==
    IF r = "hpp"
    THEN IF dev.isOn
         THEN LET p == PoweredDevice_turnOff(dev, now)
              IN  [dev |-> [p.dev EXCEPT !.mode = "display"], energy |-> p.energy]
         ELSE [dev |-> dev, energy |-> 0]
    ELSE LET p == PoweredDevice_turnOff(dev, now)
         IN  [dev |-> [p.dev EXCEPT !.mode = "off"], energy |-> p.energy]

\* Whether Thermostat::setMode(m) throws std::invalid_argument.
SetModeThrows(r, m) ==
    CASE r = "hpp"  -> m # "display" /\ m # "monitoring"
      [] r = "main" -> ~(m = "heating" \/ m = "cooling" \/ m = "off")
      [] r = "ll"   -> FALSE

\* Thermostat::setMode(m) when it does not throw.
Thermostat_setMode(r, dev, m, now) ==
    IF r = "hpp"
    THEN [dev EXCEPT !.mode = m]
    ELSE LET s == [dev EXCEPT !.mode = m]
         IN  IF m # "off" /\ ~s.isOn THEN Thermostat_turnOn(r, s, now) ELSE s

\* Thermostat::setTargetTemperature (heating/cooling revisions only).
Thermostat_setTargetTemperature(r, dev, temp, now) ==
    LET s == [dev EXCEPT !.targetTemperature = temp]
    IN  IF ~s.isOn /\ temp # s.currentTemperature
        THEN Thermostat_turnOn(r, s, now)
        ELSE s

\* Thermostat::getPowerUsage (heating/cooling revisions), times 20:
\* powerConsumption * (0.5 + tempDiff / 10.0).
Thermostat_getPowerUsage20(dev) ==
    IF ~dev.isOn \/ dev.mode = "off"
    THEN 0
    ELSE LET tempDiff == Abs(dev.targetTemperature - dev.currentTemperature)
         IN  dev.powerConsumption * (10 + 2 * tempDiff)

----------------------------------------------------------------------------
(* SmartOutlet *)

SmartOutlet_turnOn(r, dev, now) ==
    IF r = "hpp"
    THEN IF ~dev.isOn THEN PoweredDevice_turnOn(dev, now) ELSE dev
    ELSE [PoweredDevice_turnOn(dev, now) EXCEPT !.outletOn = TRUE]

SmartOutlet_turnOff(r, dev, now) ==
    IF r = "hpp"
    THEN IF dev.isOn
         THEN LET p == PoweredDevice_turnOff(dev, now)
              IN  [dev |-> [p.dev EXCEPT !.outletOn = FALSE], energy |-> p.energy]
         ELSE [dev |-> dev, energy |-> 0]
    ELSE LET p == PoweredDevice_turnOff(dev, now)
         IN  [dev |-> [p.dev EXCEPT !.outletOn = FALSE], energy |-> p.energy]

SmartOutlet_toggleOutlet(r, dev) ==
    IF r = "hpp"
    THEN IF dev.isOn THEN [dev EXCEPT !.outletOn = ~@] ELSE dev
    ELSE [dev EXCEPT !.outletOn = ~@]

\* SmartOutlet::isOutletOn
IsOutletOn(r, dev) ==
    IF r = "hpp" THEN dev.outletOn /\ dev.isOn ELSE dev.outletOn

\* SmartOutlet::getCurrentPower (hpp) / SmartOutlet::getPowerUsage (main, ll).
SmartOutlet_getCurrentPower(dev) ==
    IF dev.isOn /\ dev.outletOn THEN dev.powerConsumption ELSE 0

----------------------------------------------------------------------------
(* LightBulb *)

BrightnessInRange(level) == level >= MinBrightness /\ level <= MaxBrightness

\* Whether LightBulb::setBrightness(level) throws std::invalid_argument.
SetBrightnessThrows(r, level) ==
    IF r = "ll" THEN FALSE ELSE ~BrightnessInRange(level)

\* LightBulb::setBrightness(level) when it does not throw.
LightBulb_setBrightness(r, dev, level) ==
    IF BrightnessInRange(level) THEN [dev EXCEPT !.brightness = level] ELSE dev

----------------------------------------------------------------------------
(* Virtual dispatch *)

TurnOnOf(r, dev, now) ==
    CASE dev.kind = "LightBulb"   -> PoweredDevice_turnOn(dev, now)
      [] dev.kind = "Thermostat"  -> Thermostat_turnOn(r, dev, now)
      [] dev.kind = "SmartOutlet" -> SmartOutlet_turnOn(r, dev, now)

TurnOffOf(r, dev, now) ==
    CASE dev.kind = "LightBulb"   -> PoweredDevice_turnOff(dev, now)
      [] dev.kind = "Thermostat"  -> Thermostat_turnOff(r, dev, now)
      [] dev.kind = "SmartOutlet" -> SmartOutlet_turnOff(r, dev, now)

\* getPowerUsage() through the vtable, times 20. The header overrides
\* getCurrentPower in the variants and leaves getPowerUsage to PoweredDevice.
GetPowerUsage20Of(r, dev) ==
    IF r = "hpp"
    THEN 20 * PoweredDevice_getPowerUsage(dev)
    ELSE CASE dev.kind = "LightBulb"   -> 20 * PoweredDevice_getPowerUsage(dev)
           [] dev.kind = "Thermostat"  -> Thermostat_getPowerUsage20(dev)
           [] dev.kind = "SmartOutlet" -> 20 * SmartOutlet_getCurrentPower(dev)

----------------------------------------------------------------------------
(* Construction, copy construction, assignment *)

\* Whether PoweredDevice::PoweredDevice(id, name, power) throws.
PoweredCtorThrows(r, power) == r = "hpp" /\ power <= 0

\* Whether LightBulb::LightBulb(..., brightness, color) throws (after its base
\* class has been constructed).
LightBulbCtorThrows(brightness) == brightness < 0 \/ brightness > 100

CtorThrows(r, kind, power, brightness) ==
    \/ PoweredCtorThrows(r, power)
    \/ kind = "LightBulb" /\ LightBulbCtorThrows(brightness)

\* The object a variant constructor produces when it does not throw.
NewDevice(r, kind, power, brightness, color, initialTemp) ==
    LET base == [NoDevice EXCEPT !.kind = kind, !.deviceId = <<BaseId(kind)>>,
                                 !.isOn = FALSE, !.powerConsumption = power,
                                 !.lastTurnOnTime = 0, !.totalOnTime = 0]
    IN  CASE kind = "LightBulb" ->
               [base EXCEPT !.brightness = brightness, !.color = color]
          [] kind = "Thermostat" ->
               [base EXCEPT !.currentTemperature = initialTemp,
                            !.targetTemperature =
                                IF HeatingCooling(r) THEN initialTemp ELSE 0,
                            !.mode = RestingMode(r)]
          [] kind = "SmartOutlet" ->
               [base EXCEPT !.outletOn = FALSE]

\* Whether the SmartDevice copy constructor is user-written (it then renames
\* the copy and counts it); ll.cpp declares none, so the compiler's is used.
UserCopyCtor(r) == r # "ll"

\* SmartDevice(const SmartDevice&) then PoweredDevice(const PoweredDevice&)
\* then the variant's copy constructor, which copies the variant attributes.
CopyOf(r, other) ==
    CASE r = "hpp"  -> [other EXCEPT !.deviceId = Append(@, "_copy"),
                                     !.lastTurnOnTime = 0, !.totalOnTime = 0]
      [] r = "main" -> [other EXCEPT !.deviceId = Append(@, "_copy")]
      [] r = "ll"   -> other

\* SmartDevice::operator= then PoweredDevice::operator= then the variant's
\* operator=, for this != &other.
AssignedFrom(r, other) ==
    CASE r = "hpp"  -> [other EXCEPT !.deviceId = Append(@, "_assigned"),
                                     !.lastTurnOnTime = 0, !.totalOnTime = 0]
      [] r = "main" -> [other EXCEPT !.deviceId = Append(@, "_assigned")]
      [] r = "ll"   -> other

----------------------------------------------------------------------------
(* The state machine *)

Init ==
    /\ rev \in Revisions
    /\ scope \in Scopes
    /\ clock = StartTime
    /\ devs = [d \in Slots |-> NoDevice]
    /\ totalDevicesCreated = 0
    /\ totalEnergyConsumedAll = 0
    /\ last = NoCall

\* The inputs of a scope: every input, or the valid ones only.
PowerArgs == IF scope.args THEN PowerInputs ELSE {2}

BrightnessArgs == IF scope.args THEN BrightnessInputs ELSE {100}

ColorArgs == IF scope.args THEN ColorInputs ELSE {"white"}

TempArgs == IF scope.args THEN TempInputs ELSE {20}

ModeArgs == IF scope.args THEN ModeInputs ELSE {RestingMode(rev), ActiveMode(rev)}

\* The slots are filled in order ("a" before "b"), and the objects of one
\* behaviour are of one variant: a second object is there to be copied from,
\* assigned to, or left alone by the calls on the first.
FillsInOrder(d, kind) ==
    /\ d = "b" => Exists("a")
    /\ \A e \in Slots : Exists(e) => devs[e].kind = kind

\* Time passes between two calls.
Tick ==
    /\ clock < StartTime + scope.ticks
    /\ clock' = clock + 1
    /\ UNCHANGED <<rev, scope, devs, totalDevicesCreated, totalEnergyConsumedAll, last>>

\* new LightBulb / Thermostat / SmartOutlet (id, name, power, ...) into a free
\* slot. The SmartDevice base constructor counts the object before the derived
\* constructors run their checks.
Construct(d, kind, power, brightness, color, initialTemp) ==
    /\ d \in scope.slots
    /\ ~Exists(d)
    /\ FillsInOrder(d, kind)
    /\ totalDevicesCreated < MaxCreated
    /\ totalDevicesCreated' = totalDevicesCreated + 1
    /\ IF CtorThrows(rev, kind, power, brightness)
       THEN devs' = devs
       ELSE devs' = [devs EXCEPT ![d] =
                        NewDevice(rev, kind, power, brightness, color, initialTemp)]
    /\ last' = Call("construct", d, CtorThrows(rev, kind, power, brightness))
    /\ UNCHANGED <<rev, scope, clock, totalEnergyConsumedAll>>

\* Variant copy constructor: a new object in slot d copied from slot src.
CopyConstruct(d, src) ==
    /\ d \in scope.slots
    /\ ~Exists(d)
    /\ Exists(src)
    /\ FillsInOrder(d, devs[src].kind)
    /\ UserCopyCtor(rev) => /\ totalDevicesCreated < MaxCreated
                            /\ Len(devs[src].deviceId) < MaxIdLen
    /\ devs' = [devs EXCEPT ![d] = CopyOf(rev, devs[src])]
    /\ totalDevicesCreated' =
           IF UserCopyCtor(rev) THEN totalDevicesCreated + 1 ELSE totalDevicesCreated
    /\ last' = Call("copy", d, FALSE)
    /\ UNCHANGED <<rev, scope, clock, totalEnergyConsumedAll>>

\* devs[d] = devs[src], both of the same variant; d = src is self-assignment.
Assign(d, src) ==
    /\ Exists(d)
    /\ Exists(src)
    /\ devs[d].kind = devs[src].kind
    /\ (d # src /\ UserCopyCtor(rev)) => Len(devs[src].deviceId) < MaxIdLen
    /\ devs' = IF d # src
               THEN [devs EXCEPT ![d] = AssignedFrom(rev, devs[src])]
               ELSE devs
    /\ last' = Call("assign", d, FALSE)
    /\ UNCHANGED <<rev, scope, clock, totalDevicesCreated, totalEnergyConsumedAll>>

\* Faulty variant of turnOn(): the objects share their state, so turning one
\* on turns every object on. Not used by the model.
TurnOn_SharedState(d) ==
    /\ scope.switching
    /\ Exists(d)
    /\ devs' = [e \in Slots |->
                  IF Exists(e) THEN TurnOnOf(rev, devs[e], clock) ELSE devs[e]]
    /\ last' = SwitchingCall("turnOn", d, FALSE)
    /\ UNCHANGED <<rev, scope, clock, totalDevicesCreated, totalEnergyConsumedAll>>

TurnOn(d) ==
    /\ scope.switching
    /\ Exists(d)
    /\ devs' = [devs EXCEPT ![d] = TurnOnOf(rev, devs[d], clock)]
    /\ last' = SwitchingCall("turnOn", d, FALSE)
    /\ UNCHANGED <<rev, scope, clock, totalDevicesCreated, totalEnergyConsumedAll>>

TurnOff(d) ==
    LET r == TurnOffOf(rev, devs[d], clock)
    IN  /\ scope.switching
        /\ Exists(d)
        /\ totalEnergyConsumedAll + r.energy <= MaxEnergy
        /\ devs' = [devs EXCEPT ![d] = r.dev]
        /\ totalEnergyConsumedAll' = totalEnergyConsumedAll + r.energy
        /\ last' = SwitchingCall("turnOff", d, FALSE)
        /\ UNCHANGED <<rev, scope, clock, totalDevicesCreated>>

SetBrightness(d, level) ==
    /\ scope.setters
    /\ devs[d].kind = "LightBulb"
    /\ IF SetBrightnessThrows(rev, level)
       THEN devs' = devs
       ELSE devs' = [devs EXCEPT ![d] = LightBulb_setBrightness(rev, devs[d], level)]
    /\ last' = Call("setBrightness", d, SetBrightnessThrows(rev, level))
    /\ UNCHANGED <<rev, scope, clock, totalDevicesCreated, totalEnergyConsumedAll>>

SetColor(d, newColor) ==
    /\ scope.setters
    /\ devs[d].kind = "LightBulb"
    /\ devs' = [devs EXCEPT ![d].color = newColor]
    /\ last' = Call("setColor", d, FALSE)
    /\ UNCHANGED <<rev, scope, clock, totalDevicesCreated, totalEnergyConsumedAll>>

SetMode(d, newMode) ==
    /\ scope.switching
    /\ devs[d].kind = "Thermostat"
    /\ IF SetModeThrows(rev, newMode)
       THEN devs' = devs
       ELSE devs' = [devs EXCEPT ![d] = Thermostat_setMode(rev, devs[d], newMode, clock)]
    /\ last' = SwitchingCall("setMode", d, SetModeThrows(rev, newMode))
    /\ UNCHANGED <<rev, scope, clock, totalDevicesCreated, totalEnergyConsumedAll>>

SetTargetTemperature(d, temp) ==
    /\ scope.setters
    /\ HeatingCooling(rev)
    /\ devs[d].kind = "Thermostat"
    /\ devs' = [devs EXCEPT ![d] =
                   Thermostat_setTargetTemperature(rev, devs[d], temp, clock)]
    /\ last' = SwitchingCall("setTargetTemperature", d, FALSE)
    /\ UNCHANGED <<rev, scope, clock, totalDevicesCreated, totalEnergyConsumedAll>>

UpdateTemperature(d, newTemp) ==
    /\ scope.setters
    /\ devs[d].kind = "Thermostat"
    /\ devs' = [devs EXCEPT ![d].currentTemperature = newTemp]
    /\ last' = Call("updateTemperature", d, FALSE)
    /\ UNCHANGED <<rev, scope, clock, totalDevicesCreated, totalEnergyConsumedAll>>

ToggleOutlet(d) ==
    /\ scope.switching
    /\ devs[d].kind = "SmartOutlet"
    /\ devs' = [devs EXCEPT ![d] = SmartOutlet_toggleOutlet(rev, devs[d])]
    /\ last' = Call("toggleOutlet", d, FALSE)
    /\ UNCHANGED <<rev, scope, clock, totalDevicesCreated, totalEnergyConsumedAll>>

\* A read of the device's present power draw; changes nothing.
GetPowerUsage(d) ==
    /\ scope.statics
    /\ Exists(d)
    /\ last' = Query("getPowerUsage", d, GetPowerUsage20Of(rev, devs[d]))
    /\ UNCHANGED <<rev, scope, clock, devs, totalDevicesCreated, totalEnergyConsumedAll>>

ResetEnergyConsumption ==
    /\ scope.statics
    /\ totalEnergyConsumedAll' = 0
    /\ last' = Call("resetEnergyConsumption", "-", FALSE)
    /\ UNCHANGED <<rev, scope, clock, devs, totalDevicesCreated>>

Next ==
    \/ Tick
    \/ \E d \in Slots, kind \in Kinds, power \in PowerArgs,
          brightness \in BrightnessArgs, color \in ColorArgs,
          initialTemp \in TempArgs :
            Construct(d, kind, power, brightness, color, initialTemp)
    \/ \E d \in Slots, src \in Slots : CopyConstruct(d, src)
    \/ \E d \in Slots, src \in Slots : Assign(d, src)
    \/ \E d \in Slots : TurnOn(d)
    \/ \E d \in Slots : TurnOff(d)
    \/ \E d \in Slots, level \in BrightnessInputs : SetBrightness(d, level)
    \/ \E d \in Slots, newColor \in ColorInputs : SetColor(d, newColor)
    \/ \E d \in Slots, newMode \in ModeArgs : SetMode(d, newMode)
    \/ \E d \in Slots, temp \in TempInputs : SetTargetTemperature(d, temp)
    \/ \E d \in Slots, newTemp \in TempInputs : UpdateTemperature(d, newTemp)
    \/ \E d \in Slots : ToggleOutlet(d)
    \/ \E d \in Slots : GetPowerUsage(d)
    \/ ResetEnergyConsumption

Spec == Init /\ [][Next]_vars

----------------------------------------------------------------------------
(* Properties. A step of the behaviour is one public call (or one Tick);    *)
(* unprimed variables are the state before the call, primed ones the state  *)
(* after it returns.                                                        *)

IsThermostat(d) == devs[d].kind = "Thermostat"

\* The divisor by which each revision turns watt-seconds into the unit of its
\* energy counter, as stated by the amended C1: watt-hours in
\* smart_devices.hpp and main.cpp, kilowatt-hours in ll.cpp.
C1_Divisor(r) == IF r = "ll" THEN 3600000 ELSE 3600

C2_IdempotentSwitching ==
    [][\A d \in Slots :
         ((TurnOn(d) /\ devs[d].isOn) \/ (TurnOff(d) /\ ~devs[d].isOn))
           => /\ devs' = devs
              /\ totalDevicesCreated' = totalDevicesCreated
              /\ totalEnergyConsumedAll' = totalEnergyConsumedAll]_vars

\* C3 (as amended): in every step other than an assignment to the device, an
\* existing device's totalOnTime does not decrease, and it changes only if
\* the device goes from on to off in that step (a step that changes it
\* raises it and takes the device from on to off).
C3_TotalOnTimeMonotone ==
    [][\A d \in Slots :
         (Exists(d) /\ devs'[d].kind # "none"
            /\ devs'[d].totalOnTime # devs[d].totalOnTime
            /\ ~(\E src \in Slots : Assign(d, src)))
           => /\ devs'[d].totalOnTime > devs[d].totalOnTime
              /\ devs[d].isOn /\ ~devs'[d].isOn]_vars

\* C3 as the claim states it: the same in every step, assignment to the
\* device included.
C3_AsClaimed ==
    [][\A d \in Slots :
         (Exists(d) /\ devs'[d].kind # "none"
            /\ devs'[d].totalOnTime # devs[d].totalOnTime)
           => /\ devs'[d].totalOnTime > devs[d].totalOnTime
              /\ devs[d].isOn /\ ~devs'[d].isOn]_vars

\* A device that has accumulated on-time has just been turned on again, and
\* has kept what it accumulated.
C3_Witness ==
    /\ last.op = "turnOn" /\ ~last.wasOn
    /\ devs[last.dev].isOn
    /\ devs[last.dev].lastTurnOnTime = last.t
    /\ devs[last.dev].totalOnTime > 0

\* C4: the isOn flag of an existing device changes only in a step that is a
\* turnOn(), turnOff(), setMode() or setTargetTemperature() call on that
\* device.
C4_OnChangesOnlyBySwitching ==
    [][\A d \in Slots :
         (Exists(d) /\ devs'[d].kind # "none" /\ devs'[d].isOn # devs[d].isOn)
           => \/ TurnOn(d)
              \/ TurnOff(d)
              \/ \E newMode \in ModeInputs : SetMode(d, newMode)
              \/ \E temp \in TempInputs : SetTargetTemperature(d, temp)]_vars

\* C5: setBrightness(level) with level outside [0,100] throws and leaves the
\* bulb as it was; with level inside it does not throw and brightness is
\* level afterwards.
C5_SetBrightnessChecked ==
    [][\A d \in Slots, level \in BrightnessInputs :
         SetBrightness(d, level)
           => IF level < 0 \/ level > 100
              THEN last'.threw /\ devs'[d] = devs[d]
              ELSE ~last'.threw /\ devs'[d].brightness = level]_vars

\* C6: setMode(m) with m outside the recognized modes of the revision throws
\* and leaves the thermostat and the global counters as they were.
C6_SetModeRejectsUnknown ==
    [][\A d \in Slots, newMode \in ModeInputs :
         (SetMode(d, newMode) /\ newMode \notin RecognizedModes(rev))
           => /\ last'.threw
              /\ devs'[d] = devs[d]
              /\ totalDevicesCreated' = totalDevicesCreated
              /\ totalEnergyConsumedAll' = totalEnergyConsumedAll]_vars

\* C7: on a thermostat that is off, setMode(m) with m a recognized mode other
\* than "off" / "display" does not throw, sets mode to m and turns the
\* thermostat on.
C7_SetModeTurnsOn ==
    [][\A d \in Slots, newMode \in ModeInputs :
         (SetMode(d, newMode) /\ ~devs[d].isOn
            /\ newMode \in RecognizedModes(rev) \ {"off", "display"})
           => /\ ~last'.threw
              /\ devs'[d].mode = newMode
              /\ devs'[d].isOn]_vars

\* C8: after Thermostat::turnOff() the mode is the resting mode of the
\* revision and the thermostat is off, whatever they were before.
C8_TurnOffRests ==
    [][\A d \in Slots :
         (TurnOff(d) /\ IsThermostat(d))
           => /\ devs'[d].mode = RestingMode(rev)
              /\ ~devs'[d].isOn]_vars

\* C9: Thermostat::turnOn() on a thermostat that is off turns it on and
\* takes the mode from the resting mode to the active mode of the revision;
\* in the heating/cooling revisions a mode that is already heating or
\* cooling (the turnOn() that setMode makes after storing it) is kept, and
\* the turnOn() that setTargetTemperature makes takes "off" to "heating".
C9_TurnOnActivates ==
    [][\A d \in Slots :
         (IsThermostat(d) /\ ~devs[d].isOn)
           => /\ TurnOn(d)
                   => /\ devs'[d].isOn
                      /\ devs[d].mode = RestingMode(rev)
                           => devs'[d].mode = ActiveMode(rev)
                      /\ (HeatingCooling(rev) /\ devs[d].mode \in {"heating", "cooling"})
                           => devs'[d].mode = devs[d].mode
              /\ \A newMode \in {"heating", "cooling"} :
                   (HeatingCooling(rev) /\ SetMode(d, newMode))
                     => devs'[d].isOn /\ devs'[d].mode = newMode
              /\ \A temp \in TempInputs :
                   (SetTargetTemperature(d, temp) /\ temp # devs[d].currentTemperature
                      /\ devs[d].mode = "off")
                     => devs'[d].isOn /\ devs'[d].mode = "heating"]_vars

\* turnOn() has just been called on a thermostat that was off; it is on and
\* in the active mode.
C9_Witness ==
    /\ last.op = "turnOn" /\ ~last.wasOn
    /\ IsThermostat(last.dev)
    /\ devs[last.dev].isOn
    /\ devs[last.dev].mode = ActiveMode(rev)

\* Temperatures at which the growth of the power draw is probed.
ProbeTemperatures == {15, 18, 20, 25, 30}

\* C10: in the heating/cooling revisions Thermostat::getPowerUsage() returns
\* 0 when the thermostat is off or its mode is "off", and otherwise
\* powerConsumption * (0.5 + |target - current| / 10) (ret holds 20 times the
\* value); for a fixed powerConsumption > 0 the value is strictly larger for
\* a strictly larger |target - current|.
C10_ThermostatPowerUsage ==
    HeatingCooling(rev) =>
      /\ (last.op = "getPowerUsage" /\ IsThermostat(last.dev)) =>
           LET dev == devs[last.dev]
           IN  IF ~dev.isOn \/ dev.mode = "off"
               THEN last.ret = 0
               ELSE last.ret = dev.powerConsumption
                                 * (10 + 2 * Abs(dev.targetTemperature
                                                 - dev.currentTemperature))
      /\ \A d \in Slots :
           (IsThermostat(d) /\ devs[d].isOn /\ devs[d].mode # "off"
              /\ devs[d].powerConsumption > 0)
             => \A t1 \in ProbeTemperatures, t2 \in ProbeTemperatures :
                  Abs(t1 - devs[d].currentTemperature)
                      < Abs(t2 - devs[d].currentTemperature)
                    => GetPowerUsage20Of(rev, [devs[d] EXCEPT !.targetTemperature = t1])
                         < GetPowerUsage20Of(rev, [devs[d] EXCEPT !.targetTemperature = t2])

\* getPowerUsage() has just been read from a running thermostat of positive
\* power whose target is away from the current temperature.
C10_Witness ==
    /\ HeatingCooling(rev)
    /\ last.op = "getPowerUsage" /\ IsThermostat(last.dev)
    /\ devs[last.dev].isOn /\ devs[last.dev].mode = "cooling"
    /\ devs[last.dev].powerConsumption > 0
    /\ devs[last.dev].targetTemperature # devs[last.dev].currentTemperature
    /\ last.ret > 10 * devs[last.dev].powerConsumption

IsSmartOutlet(d) == devs[d].kind = "SmartOutlet"

\* C11: the power usage query of a SmartOutlet of positive rated power
\* (getPowerUsage(), and getCurrentPower() in smart_devices.hpp) is nonzero
\* exactly when the device is on and the outlet is engaged, and then equals
\* powerConsumption (ret holds 20 times the value).
C11_OutletPowerIffEngaged ==
    /\ (last.op = "getPowerUsage" /\ IsSmartOutlet(last.dev)
          /\ devs[last.dev].powerConsumption > 0)
         => LET dev == devs[last.dev]
            IN  /\ last.ret # 0 <=> (dev.isOn /\ dev.outletOn)
                /\ last.ret # 0 => last.ret = 20 * dev.powerConsumption
    /\ \A d \in Slots :
         (IsSmartOutlet(d) /\ devs[d].powerConsumption > 0)
           => LET p == SmartOutlet_getCurrentPower(devs[d])
              IN  /\ p # 0 <=> (devs[d].isOn /\ devs[d].outletOn)
                  /\ p # 0 => p = devs[d].powerConsumption

\* C12: toggleOutlet() flips outletOn when the device is on and leaves the
\* outlet, every other device and the global counters as they were when the
\* device is off.
C12_ToggleGatedOnPower ==
    [][\A d \in Slots :
         ToggleOutlet(d)
           => IF devs[d].isOn
              THEN devs'[d] = [devs[d] EXCEPT !.outletOn = ~devs[d].outletOn]
              ELSE /\ devs' = devs
                   /\ totalDevicesCreated' = totalDevicesCreated
                   /\ totalEnergyConsumedAll' = totalEnergyConsumedAll]_vars

\* C13: after SmartOutlet::turnOn() returns outletOn is true and isOutletOn()
\* returns true; after SmartOutlet::turnOff() returns outletOn is false.
C13_SwitchingSetsOutlet ==
    [][\A d \in Slots :
         /\ (IsSmartOutlet(d) /\ TurnOn(d))
              => devs'[d].outletOn /\ IsOutletOn(rev, devs'[d])
         /\ (IsSmartOutlet(d) /\ TurnOff(d))
              => ~devs'[d].outletOn]_vars

\* C14: totalDevicesCreated rises in a step by exactly the number of devices
\* the step creates (through a variant constructor or a copy constructor),
\* and no other step changes it.
C14_CounterCountsCreations ==
    [][totalDevicesCreated' - totalDevicesCreated
         = Cardinality({d \in Slots : ~Exists(d) /\ devs'[d].kind # "none"})]_vars

\* C15: a variant constructor called with power <= 0 throws and produces no
\* device; with power > 0 and valid variant arguments it produces the device.
C15_PowerValidated ==
    [][\A d \in Slots, kind \in Kinds, power \in PowerInputs,
          brightness \in BrightnessInputs, color \in ColorInputs,
          initialTemp \in TempInputs :
         (last'.op = "construct"
            /\ Construct(d, kind, power, brightness, color, initialTemp))
           => /\ power <= 0 => (last'.threw /\ devs'[d].kind = "none")
              /\ (power > 0 /\ (kind = "LightBulb" => BrightnessInRange(brightness)))
                   => (~last'.threw /\ devs'[d].kind = kind
                         /\ devs'[d].powerConsumption = power)]_vars

\* C16: where the queries exist (smart_devices.hpp, main.cpp), at every clock
\* value getCurrentSessionTime() is the number of seconds since the device
\* was last switched on (0 while it is off): it is 0 right after a step in
\* which the device comes to be on, it grows with the clock while the device
\* stays on, and no call on a device that stays on changes it; and
\* getDeviceEnergyConsumed() is powerConsumption * (totalOnTime + that) / 3600
\* (compared in watt-seconds).
C16_EnergyConsumedFormula ==
    [][rev # "ll" =>
         \A d \in Slots :
           devs'[d].kind # "none" =>
             LET s0 == GetCurrentSessionTime(devs[d], clock)
                 s1 == GetCurrentSessionTime(devs'[d], clock')
             IN  /\ ~devs'[d].isOn => s1 = 0
                 /\ (devs'[d].isOn /\ ~devs[d].isOn) => s1 = 0
                 /\ (devs'[d].isOn /\ devs[d].isOn) => s1 = s0 + (clock' - clock)
                 /\ GetDeviceEnergyConsumed(devs'[d], clock')
                      = devs'[d].powerConsumption * (devs'[d].totalOnTime + s1)]_vars

\* C17: in the heating/cooling revisions setTargetTemperature(t) always sets
\* targetTemperature to t; on a thermostat that is off with t different from
\* currentTemperature it turns the thermostat on and the mode leaves "off";
\* if t equals currentTemperature or the thermostat is already on, isOn and
\* mode are unchanged. Nothing else of the thermostat changes except, when
\* it is turned on, lastTurnOnTime.
C17_SetTargetTemperature ==
    [][\A d \in Slots, temp \in TempInputs :
         (last'.op = "setTargetTemperature" /\ SetTargetTemperature(d, temp))
           => /\ devs'[d].targetTemperature = temp
              /\ IF ~devs[d].isOn /\ temp # devs[d].currentTemperature
                 THEN /\ devs'[d].isOn
                      /\ devs'[d].mode # "off"
                      /\ devs'[d].lastTurnOnTime = clock
                 ELSE /\ devs'[d].isOn = devs[d].isOn
                      /\ devs'[d].mode = devs[d].mode
                      /\ devs'[d].lastTurnOnTime = devs[d].lastTurnOnTime
              /\ devs'[d].currentTemperature = devs[d].currentTemperature
              /\ devs'[d].totalOnTime = devs[d].totalOnTime
              /\ totalEnergyConsumedAll' = totalEnergyConsumedAll]_vars

\* setTargetTemperature has just turned on a thermostat that was off, with a
\* target away from the current temperature.
C17_Witness ==
    /\ HeatingCooling(rev)
    /\ last.op = "setTargetTemperature" /\ ~last.wasOn
    /\ IsThermostat(last.dev)
    /\ devs[last.dev].isOn
    /\ devs[last.dev].mode = "heating"
    /\ devs[last.dev].targetTemperature # devs[last.dev].currentTemperature
    /\ devs[last.dev].lastTurnOnTime = last.t

\* C18: resetEnergyConsumption() sets the process-wide energy total to 0 and
\* changes nothing else: every field of every device and
\* totalDevicesCreated are as before, and so is every device's
\* getDeviceEnergyConsumed().
C18_ResetOnlyGlobalTotal ==
    [][(last'.op = "resetEnergyConsumption" /\ ResetEnergyConsumption)
         => /\ totalEnergyConsumedAll' = 0
            /\ totalDevicesCreated' = totalDevicesCreated
            /\ \A d \in Slots :
                 /\ devs'[d] = devs[d]
                 /\ GetDeviceEnergyConsumed(devs'[d], clock')
                      = GetDeviceEnergyConsumed(devs[d], clock)]_vars

\* The global total has just been reset and is 0 while a device still
\* reports the energy of its closed sessions.
C18_Witness ==
    /\ last.op = "resetEnergyConsumption"
    /\ totalEnergyConsumedAll = 0
    /\ \E d \in Slots :
         /\ Exists(d) /\ ~devs[d].isOn
         /\ devs[d].totalOnTime > 0
         /\ GetDeviceEnergyConsumed(devs[d], clock) > 0

\* C19: copy construction yields a new device whose id is the source's id
\* with "_copy" appended, whose powerConsumption and variant attributes equal
\* the source's, and whose totalOnTime and lastTurnOnTime are 0;
\* totalDevicesCreated rises by exactly 1 and the source is unchanged.
C19_CopyFreshIdentityZeroTiming ==
    [][\A d \in Slots, src \in Slots :
         (last'.op = "copy" /\ CopyConstruct(d, src))
           => /\ devs'[d].deviceId = Append(devs[src].deviceId, "_copy")
              /\ devs'[d].kind = devs[src].kind
              /\ devs'[d].powerConsumption = devs[src].powerConsumption
              /\ devs'[d].brightness = devs[src].brightness
              /\ devs'[d].color = devs[src].color
              /\ devs'[d].currentTemperature = devs[src].currentTemperature
              /\ devs'[d].targetTemperature = devs[src].targetTemperature
              /\ devs'[d].mode = devs[src].mode
              /\ devs'[d].outletOn = devs[src].outletOn
              /\ devs'[d].totalOnTime = 0
              /\ devs'[d].lastTurnOnTime = 0
              /\ totalDevicesCreated' = totalDevicesCreated + 1
              /\ devs'[src] = devs[src]]_vars

\* C20: a call of turnOn, turnOff, setBrightness, setColor, setMode or
\* toggleOutlet (or setTargetTemperature, updateTemperature) on one device
\* leaves every field of every other device unchanged, whether the other is
\* its copy, its original, or was assigned from or to it (a step that
\* changes a device e is no such call on another device d).
C20_CopiesIndependent ==
    [][\A d \in Slots : \A e \in Slots \ {d} :
         devs'[e] # devs[e]
           => ~ \/ TurnOn(d)
                \/ TurnOff(d)
                \/ \E level \in BrightnessInputs : SetBrightness(d, level)
                \/ \E newColor \in ColorInputs : SetColor(d, newColor)
                \/ \E newMode \in ModeInputs : SetMode(d, newMode)
                \/ \E temp \in TempInputs : SetTargetTemperature(d, temp)
                \/ \E newTemp \in TempInputs : UpdateTemperature(d, newTemp)
                \/ ToggleOutlet(d)]_vars

\* An original has just been turned on while its copy (or the object
\* assigned from it) stays off: the two now differ.
C20_Witness ==
    /\ last.op = "turnOn" /\ ~last.wasOn
    /\ devs[last.dev].isOn
    /\ \E e \in Slots \ {last.dev} :
         /\ Exists(e)
         /\ Len(devs[e].deviceId) = Len(devs[last.dev].deviceId) + 1
         /\ ~devs[e].isOn
         /\ devs[e].lastTurnOnTime # devs[last.dev].lastTurnOnTime

\* C21: immediately after a variant constructor (LightBulb, Thermostat,
\* SmartOutlet) has produced a device, the device is off, its accumulated
\* on-time is 0, a SmartOutlet's outlet is not engaged and a Thermostat is in
\* its resting mode ("off" in main.cpp and ll.cpp, "display" in
\* smart_devices.hpp).
C21_FreshDeviceAtRest ==
    [][\A d \in Slots :
         (last'.op = "construct" /\ last'.dev = d /\ ~last'.threw /\ ~Exists(d))
           => /\ devs'[d].kind \in Kinds
              /\ ~devs'[d].isOn
              /\ devs'[d].totalOnTime = 0
              /\ devs'[d].kind = "SmartOutlet" => ~devs'[d].outletOn
              /\ devs'[d].kind = "Thermostat" => devs'[d].mode = RestingMode(rev)]_vars

\* A thermostat has just been constructed in the display/monitoring revision
\* while another device of the behaviour is on.
C21_Witness ==
    /\ rev = "hpp"
    /\ last.op = "construct" /\ last.dev = "b" /\ ~last.threw
    /\ devs["b"].kind = "Thermostat" /\ devs["b"].mode = "display"
    /\ ~devs["b"].isOn /\ devs["b"].totalOnTime = 0
    /\ devs["a"].isOn

\* C22: in every reachable state, every LightBulb that exists (constructed,
\* copied or assigned to, after any calls of setBrightness, setColor, turnOn,
\* turnOff, failed ones included) has 0 <= brightness <= 100.
C22_BrightnessInRange ==
    \A d \in Slots :
        devs[d].kind = "LightBulb"
          => devs[d].brightness >= 0 /\ devs[d].brightness <= 100

\* A bulb whose brightness was lowered to 0 has just refused an out-of-range
\* level, next to a copy that still has the brightness it was copied with.
C22_Witness ==
    /\ last.op = "setBrightness" /\ last.dev = "a" /\ last.threw
    /\ devs["a"].kind = "LightBulb" /\ devs["a"].brightness = 0
    /\ devs["b"].kind = "LightBulb" /\ devs["b"].brightness = 100
    /\ Len(devs["b"].deviceId) = 2

\* C23: in every reachable state, a device that is on has lastTurnOnTime equal
\* to the clock value of a turn-on event: never the initial sentinel 0, and
\* never later than the present clock, so that the session a following
\* turnOff() adds is at most the time elapsed since the turn-on. This is
\* claimed for devices made by copy construction or assignment from a device
\* that is on as well.
C23_OnHasTurnOnTime ==
    \A d \in Slots :
        (Exists(d) /\ devs[d].isOn)
          => /\ devs[d].lastTurnOnTime >= StartTime
             /\ devs[d].lastTurnOnTime <= clock
             /\ SessionTime(devs[d], clock) <= clock - StartTime

\* C24: in every reachable state of a SmartOutlet, the outlet-engaged flag is
\* true only if the device is on (outletOn => isOn), whatever sequence of
\* turnOn, turnOff, toggleOutlet, copy construction and assignment led there.
C24_OutletEngagedOnlyWhenOn ==
    \A d \in Slots :
        devs[d].kind = "SmartOutlet" => (devs[d].outletOn => devs[d].isOn)

\* The energy of the completed sessions of every device, in watt-seconds:
\* the sum over the devices of powerConsumption * totalOnTime.
C25_CompletedSessionsEnergy(ds) ==
    LET sum[S \in SUBSET Slots] ==
            IF S = {} THEN 0
            ELSE LET d == CHOOSE x \in S : TRUE
                 IN  ds[d].powerConsumption * ds[d].totalOnTime + sum[S \ {d}]
    IN  sum[Slots]

\* C25: as long as resetEnergyConsumption() is not called, the process-wide
\* energy total equals the sum over all devices of
\* powerConsumption * totalOnTime / 3600, after any sequence of turnOn /
\* turnOff calls, copy constructions and assignments. Both are 0 initially;
\* stated over steps: a call other than resetEnergyConsumption() made in a
\* state where the two are equal leaves them equal. (The counter variable
\* holds EnergyDivisor(rev) times the C++ value.)
C25_TotalIsSumOfDevices ==
    [][(/\ last'.op # "resetEnergyConsumption"
        /\ totalEnergyConsumedAll * 3600
             = C25_CompletedSessionsEnergy(devs) * EnergyDivisor(rev))
         => totalEnergyConsumedAll' * 3600
              = C25_CompletedSessionsEnergy(devs') * EnergyDivisor(rev)]_vars

\* C26: a construction that fails (power <= 0 where it is checked, or a
\* LightBulb brightness outside [0,100]) produces no device and leaves both
\* process-wide counters as they were: totalDevicesCreated counts only the
\* devices that were actually produced.
C26_FailedConstructionUncounted ==
    [][\A d \in Slots :
         (last'.op = "construct" /\ last'.dev = d /\ last'.threw /\ ~Exists(d))
           => /\ devs'[d].kind = "none"
              /\ totalDevicesCreated' = totalDevicesCreated
              /\ totalEnergyConsumedAll' = totalEnergyConsumedAll]_vars

\* C27 (as amended): in the heating/cooling revisions (main.cpp, ll.cpp), in
\* every reachable state of a Thermostat, a mode other than "off" implies that
\* the thermostat is on: an off thermostat is always in mode "off". The
\* converse is not claimed: setMode("off") on a thermostat that is on stores
\* the mode and leaves the thermostat on.
C27_OffThermostatInModeOff ==
    \A d \in Slots :
        (HeatingCooling(rev) /\ IsThermostat(d))
          => (devs[d].mode # "off" => devs[d].isOn)

\* C27 as the claim states it: on if and only if mode is not "off", and an
\* on thermostat is heating or cooling.
C27_AsClaimed ==
    \A d \in Slots :
        (HeatingCooling(rev) /\ IsThermostat(d))
          => /\ devs[d].isOn <=> devs[d].mode # "off"
             /\ devs[d].isOn => devs[d].mode \in {"heating", "cooling"}

\* A heating thermostat has just been turned off and is in mode "off".
C27_Witness ==
    /\ rev = "main"
    /\ last.op = "turnOff" /\ last.wasOn
    /\ IsThermostat(last.dev)
    /\ ~devs[last.dev].isOn /\ devs[last.dev].mode = "off"
    /\ devs[last.dev].totalOnTime > 0

\* C28: in the display/monitoring revision (smart_devices.hpp), in every
\* reachable state of a Thermostat, mode is "monitoring" if and only if the
\* thermostat is on, and "display" if and only if it is off.
C28_MonitoringIffOn ==
    \A d \in Slots :
        (rev = "hpp" /\ IsThermostat(d))
          => /\ devs[d].mode = "monitoring" <=> devs[d].isOn
             /\ devs[d].mode = "display" <=> ~devs[d].isOn

\* C29: in every reachable state, a Thermostat's mode is a member of the
\* recognized enumeration of its revision ({off, heating, cooling} in the
\* heating/cooling revisions, {display, monitoring} in smart_devices.hpp),
\* whatever strings are passed to setMode.
C29_ModeRecognized ==
    \A d \in Slots :
        IsThermostat(d) => devs[d].mode \in RecognizedModes(rev)

\* C30: with a clock that never goes backwards, the process-wide energy total
\* is never negative, does not decrease in any step other than
\* resetEnergyConsumption(), and changes in such a step only if some device
\* goes from on to off in it.
C30_EnergyTotalMonotone ==
    [][/\ totalEnergyConsumedAll' >= 0
       /\ ~ResetEnergyConsumption
            => /\ totalEnergyConsumedAll' >= totalEnergyConsumedAll
               /\ totalEnergyConsumedAll' # totalEnergyConsumedAll
                    => \E d \in Slots : devs[d].isOn /\ ~devs'[d].isOn]_vars

====
